---- MODULE Spec2Model ----
(***************************************************************************)
(* Model of the DCOP result post-processing scripts:                       *)
(*   scripts/verify_problems.py   (problem-export consistency verifier)    *)
(*   scripts/analyze_results.py   (aggregation, ranking, comparison table) *)
(*   scripts/generate_table.py    (aggregation keyed by configuration)     *)
(*   scripts/analyze_rounds.py    (round completion analysis)              *)
(*                                                                         *)
(* A Python string is a sequence of symbols.  Digits, the sign, the comma, *)
(* '#', the blank and the newline are one symbol each; an alphabetic word  *)
(* ("PDSA", "algorithm", "NaN") is one symbol.  split, strip and int work  *)
(* on these sequences as the Python built-ins work on characters.          *)
(***************************************************************************)
EXTENDS Integers, Sequences, FiniteSets, TLC

VARIABLES
    \* ---- verify_problems.py : compare_problems ----
    file1, file2,        \* contents of the two files handed to compare_problems
    differences,         \* list returned by compare_problems
    cpc,                 \* position of the compare_problems call
    \* ---- verify_problems.py : main ----
    argv,                \* sys.argv[1:], each element "-h" or a file's rows
    vpc,                 \* position in main
    vi, vj,              \* indices of the pair loop (1-based)
    all_differences,     \* accumulated differences
    comparison_count,    \* number of compare_problems calls made
    compared,            \* the index pairs handed to compare_problems, in order
    exit_status,         \* process exit status, -1 while running
    \* ---- analyze_results.py, generate_table.py, analyze_rounds.py ----
    prog,                \* which script runs
    dir,                 \* the result files of the directory, in listing order
    idx,                 \* number of files the scan loop has consumed
    config, results,     \* locals of the scan loop body (last file parsed)
    rounds,              \* analyze_rounds: local of the scan loop body
    data,                \* analyze_results: list built by analyze_directory
    gt_data,             \* generate_table: dict built by analyze_directory
    all_results,         \* analyze_rounds: dict built by main
    apc,                 \* position in the script
    ridx,                \* print_comparison_table: rows printed so far
    table,               \* print_comparison_table: the rows printed
    wins,                \* print_comparison_table: win tallies
    rounds_rows,         \* analyze_rounds: the table lines of present keys
    status,              \* exit status of the script, -1 while running
    summary,             \* print_summary_by_agents: the rows printed
    gt_table             \* generate_table: the cells printed by print_table

verifyVars == <<file1, file2, differences, cpc, argv, vpc, vi, vj,
                all_differences, comparison_count, compared, exit_status>>

pipeVars == <<prog, dir, idx, config, results, rounds, data, gt_data,
              all_results, apc, ridx, table, wins, rounds_rows, status,
              summary, gt_table>>

vars == <<verifyVars, pipeVars>>

(***************************************************************************)
(* Python built-ins on strings                                             *)
(***************************************************************************)
Digits == {"0", "1", "2", "3", "4", "5", "6", "7", "8", "9"}

DigitVal(c) ==
    CASE c = "0" -> 0 [] c = "1" -> 1 [] c = "2" -> 2 [] c = "3" -> 3
      [] c = "4" -> 4 [] c = "5" -> 5 [] c = "6" -> 6 [] c = "7" -> 7
      [] c = "8" -> 8 [] c = "9" -> 9

Whitespace == {" ", "\n"}

RECURSIVE lstrip(_)
lstrip(s) == IF s # <<>> /\ Head(s) \in Whitespace THEN lstrip(Tail(s)) ELSE s

RECURSIVE rstrip(_)
rstrip(s) ==
    IF s # <<>> /\ s[Len(s)] \in Whitespace
    THEN rstrip(SubSeq(s, 1, Len(s) - 1))
    ELSE s

\* str.strip()
strip(s) == rstrip(lstrip(s))

\* str.split(','): fields collected from position i on, cur is the open field
RECURSIVE split_from(_, _, _)
split_from(s, i, cur) ==
    IF i > Len(s) THEN <<cur>>
    ELSE IF s[i] = "," THEN <<cur>> \o split_from(s, i + 1, <<>>)
    ELSE split_from(s, i + 1, Append(cur, s[i]))

split(s) == split_from(s, 1, <<>>)

\* the digits of an int literal once blanks and sign are removed
IntBody(s) ==
    LET t == strip(s)
    IN  IF t # <<>> /\ Head(t) \in {"-", "+"} THEN Tail(t) ELSE t

\* int(s) succeeds (does not raise ValueError)
IsInt(s) ==
    LET b == IntBody(s)
    IN  b # <<>> /\ \A k \in 1..Len(b) : b[k] \in Digits

RECURSIVE DigitsVal(_)
DigitsVal(b) ==
    IF b = <<>> THEN 0
    ELSE 10 * DigitsVal(SubSeq(b, 1, Len(b) - 1)) + DigitVal(b[Len(b)])

\* int(s), for s with IsInt(s)
IntVal(s) ==
    LET t == strip(s)
    IN  IF t # <<>> /\ Head(t) = "-" THEN 0 - DigitsVal(IntBody(s))
        ELSE DigitsVal(IntBody(s))

(***************************************************************************)
(* verify_problems.py                                                      *)
(***************************************************************************)
FieldNames == <<"num_agents", "domain_size", "num_edges", "edges", "cost_matrices">>

EmptyDict == [k \in {} |-> 0]

\* variant: the seed is left out of the key
RECURSIVE read_rows_by_problem_id(_, _)
read_rows_by_problem_id(rows, problems) ==
    IF rows = <<>> THEN problems
    ELSE LET row == Head(rows)
             key == <<IntVal(row.problem_id), IntVal(row.problem_id)>>
             rec == [num_agents    |-> row.num_agents,
                     domain_size   |-> row.domain_size,
                     num_edges     |-> row.num_edges,
                     edges         |-> row.edges,
                     cost_matrices |-> row.cost_matrices]
         IN  read_rows_by_problem_id(Tail(rows),
                       [k \in (DOMAIN problems) \cup {key} |->
                            IF k = key THEN rec ELSE problems[k]])

\* read_problems: later rows with the same (problem_id, seed) replace earlier ones
RECURSIVE read_rows(_, _)
read_rows(rows, problems) ==
    IF rows = <<>> THEN problems
    ELSE LET row == Head(rows)
             key == <<IntVal(row.problem_id), IntVal(row.seed)>>
             rec == [num_agents    |-> row.num_agents,
                     domain_size   |-> row.domain_size,
                     num_edges     |-> row.num_edges,
                     edges         |-> row.edges,
                     cost_matrices |-> row.cost_matrices]
         IN  read_rows(Tail(rows),
                       [k \in (DOMAIN problems) \cup {key} |->
                            IF k = key THEN rec ELSE problems[k]])

read_problems(file) == read_rows(file, EmptyDict)

\* hashlib.md5(...).hexdigest(): the digest is taken as collision-free and is
\* represented by the byte string it was computed from
md5(content) == content

\* variant: the last field is left out of the hashed content
hash_problem_without_cost_matrices(problem_data) ==
    md5(problem_data.num_agents \o problem_data.domain_size
        \o problem_data.num_edges \o problem_data.edges)

hash_problem(problem_data) ==
    md5(problem_data.num_agents \o problem_data.domain_size
        \o problem_data.num_edges \o problem_data.edges
        \o problem_data.cost_matrices)

find_differences(prob1, prob2) ==
    SelectSeq(FieldNames, LAMBDA field : prob1[field] # prob2[field])

\* tuple order of (problem_id, seed) keys
KeyLess(a, b) == a[1] < b[1] \/ (a[1] = b[1] /\ a[2] < b[2])

\* sorted(all_keys)
RECURSIVE sorted_keys(_)
sorted_keys(S) ==
    IF S = {} THEN <<>>
    ELSE LET m == CHOOSE x \in S : \A y \in S : y = x \/ KeyLess(x, y)
         IN  <<m>> \o sorted_keys(S \ {m})

\* variant: a key absent from the second file is not reported
compare_key_first_only(key, problems1, problems2, f1, f2) ==
    IF key \notin DOMAIN problems1
    THEN <<[problem_id |-> key[1], seed |-> key[2], type |-> "missing_in_file1",
            file1 |-> f1, file2 |-> f2]>>
    ELSE IF key \notin DOMAIN problems2
    THEN <<>>
    ELSE IF hash_problem(problems1[key]) # hash_problem(problems2[key])
    THEN <<[problem_id |-> key[1], seed |-> key[2], type |-> "content_mismatch",
            file1 |-> f1, file2 |-> f2,
            details |-> find_differences(problems1[key], problems2[key])]>>
    ELSE <<>>

\* body of the loop of compare_problems for one key
compare_key(key, problems1, problems2, f1, f2) ==
    IF key \notin DOMAIN problems1
    THEN <<[problem_id |-> key[1], seed |-> key[2], type |-> "missing_in_file1",
            file1 |-> f1, file2 |-> f2]>>
    ELSE IF key \notin DOMAIN problems2
    THEN <<[problem_id |-> key[1], seed |-> key[2], type |-> "missing_in_file2",
            file1 |-> f1, file2 |-> f2]>>
    ELSE IF hash_problem(problems1[key]) # hash_problem(problems2[key])
    THEN <<[problem_id |-> key[1], seed |-> key[2], type |-> "content_mismatch",
            file1 |-> f1, file2 |-> f2,
            details |-> find_differences(problems1[key], problems2[key])]>>
    ELSE <<>>

RECURSIVE compare_loop(_, _, _, _, _)
compare_loop(keys, problems1, problems2, f1, f2) ==
    IF keys = <<>> THEN <<>>
    ELSE compare_key(Head(keys), problems1, problems2, f1, f2)
         \o compare_loop(Tail(keys), problems1, problems2, f1, f2)

\* compare_problems(file1, file2); f1, f2 are the file names, c1, c2 the contents
compare_problems(f1, f2, c1, c2) ==
    LET problems1 == read_problems(c1)
        problems2 == read_problems(c2)
        all_keys  == (DOMAIN problems1) \cup (DOMAIN problems2)
    IN  compare_loop(sorted_keys(all_keys), problems1, problems2, f1, f2)

(***************************************************************************)
(* analyze_results.py / generate_table.py : parse_result_file              *)
(* (the two scripts carry the same text of this function)                  *)
(***************************************************************************)
\* dict.get(key, default)
dict_get(d, key, default) == IF key \in DOMAIN d THEN d[key] ELSE default

\* for i, key in enumerate(config_header): if i < len(config_values): ...
RECURSIVE config_loop(_, _, _, _)
config_loop(i, config_header, config_values, cfg) ==
    IF i > Len(config_header) THEN cfg
    ELSE IF i <= Len(config_values)
    THEN config_loop(i + 1, config_header, config_values,
                     [k \in (DOMAIN cfg) \cup {config_header[i]} |->
                          IF k = config_header[i] THEN config_values[i] ELSE cfg[k]])
    ELSE config_loop(i + 1, config_header, config_values, cfg)

parse_config(lines) ==
    IF Len(lines) >= 3
    THEN config_loop(1, split(strip(lines[2])), split(strip(lines[3])), EmptyDict)
    ELSE EmptyDict

\* variant: every field of the row has to be an integer
row_parses_all_fields(parts) == \A k \in 1..Len(parts) : IsInt(parts[k])

\* the int() calls of the try block all succeed
row_parses(parts) == \A k \in 1..5 : IsInt(parts[k])

\* the record appended for one data line, <<>> when the line is skipped
parse_row(rawline) ==
    LET line  == strip(rawline)
        parts == split(line)
    IN  IF line = <<>> \/ Head(line) = "#" THEN <<>>
        ELSE IF Len(parts) >= 5 /\ row_parses(parts)
        THEN <<[problem_id |-> IntVal(parts[1]), seed |-> IntVal(parts[2]),
                final_cost |-> IntVal(parts[3]), rounds |-> IntVal(parts[4]),
                runtime_ms |-> IntVal(parts[5])]>>
        ELSE <<>>

RECURSIVE parse_rows(_)
parse_rows(lines) ==
    IF lines = <<>> THEN <<>> ELSE parse_row(Head(lines)) \o parse_rows(Tail(lines))

\* lines[6:]
data_lines(lines) == SubSeq(lines, 7, Len(lines))

parse_result_file(lines) ==
    [config |-> parse_config(lines), results |-> parse_rows(data_lines(lines))]

(***************************************************************************)
(* Arithmetic on lists of ints; a float quotient is kept as a fraction     *)
(***************************************************************************)
RECURSIVE Sum(_)
Sum(xs) == IF xs = <<>> THEN 0 ELSE Head(xs) + Sum(Tail(xs))

Min(xs) == CHOOSE m \in {xs[k] : k \in 1..Len(xs)} : \A k \in 1..Len(xs) : m <= xs[k]
Max(xs) == CHOOSE m \in {xs[k] : k \in 1..Len(xs)} : \A k \in 1..Len(xs) : m >= xs[k]

Rat(n, d) == [num |-> n, den |-> d]
RatEq(a, b) == a.num * b.den = b.num * a.den
RatLeq(a, b) == a.num * b.den <= b.num * a.den

Column(res, f) == [k \in 1..Len(res) |-> res[k][f]]

count_zero(rounds_list) == Cardinality({k \in 1..Len(rounds_list) : rounds_list[k] = 0})

(***************************************************************************)
(* analyze_results.py : analyze_directory                                  *)
(***************************************************************************)
Word(w) == <<w>>

NoMatch == [ok |-> FALSE]

\* re.search(r'_(PDSA|PMGM)_(RANDOM|SCALE_FREE)_t(\d+)_n(\d+)_', filename)
\* on a name <stem>_<algo>_<net>_t<t>_n<n>_results.csv or <stem>_results.csv
re_search(name) ==
    IF /\ name.form = "config"
       /\ name.algo \in {"PDSA", "PMGM"}
       /\ name.net \in {"RANDOM", "SCALE_FREE"}
    THEN [ok |-> TRUE, g1 |-> Word(name.algo), g2 |-> Word(name.net),
          g3 |-> name.t, g4 |-> name.n]
    ELSE NoMatch

\* algo, network as analyze_directory resolves them
resolve_algo(cfg, match) ==
    dict_get(cfg, Word("algorithm"), IF match.ok THEN match.g1 ELSE Word("UNKNOWN"))

resolve_network(cfg, match) ==
    dict_get(cfg, Word("network_type"), IF match.ok THEN match.g2 ELSE Word("UNKNOWN"))

\* int(config.get(key, match.group(g) if match else 0)) raises ValueError
resolve_int_raises(cfg, key, match, g) ==
    IF key \in DOMAIN cfg THEN ~IsInt(cfg[key])
    ELSE match.ok /\ ~IsInt(match[g])

resolve_int(cfg, key, match, g) ==
    IF key \in DOMAIN cfg THEN IntVal(cfg[key])
    ELSE IF match.ok THEN IntVal(match[g]) ELSE 0

resolve_raises(cfg, match) ==
    \/ resolve_int_raises(cfg, Word("timeout_sec"), match, "g3")
    \/ resolve_int_raises(cfg, Word("num_agents"), match, "g4")

\* variant: the factor 100 is lost
zero_round_fraction(zero_rounds, n) == Rat(zero_rounds, n)

\* 100 * zero_rounds / len(results)
zero_round_pct(zero_rounds, n) == Rat(100 * zero_rounds, n)

\* the dict appended to data for a file with at least one result
make_entry(cfg, match, res) ==
    LET costs == Column(res, "final_cost")
        rnds  == Column(res, "rounds")
        zero_rounds == count_zero(rnds)
    IN  [algorithm |-> resolve_algo(cfg, match),
         network |-> resolve_network(cfg, match),
         timeout |-> resolve_int(cfg, Word("timeout_sec"), match, "g3"),
         agents |-> resolve_int(cfg, Word("num_agents"), match, "g4"),
         num_problems |-> Len(res),
         avg_cost |-> Rat(Sum(costs), Len(costs)),
         min_cost |-> Min(costs),
         max_cost |-> Max(costs),
         avg_rounds |-> Rat(Sum(rnds), Len(rnds)),
         min_rounds |-> Min(rnds),
         max_rounds |-> Max(rnds),
         zero_round_count |-> zero_rounds,
         zero_round_pct |-> zero_round_pct(zero_rounds, Len(res))]

(***************************************************************************)
(* generate_table.py : analyze_directory                                   *)
(***************************************************************************)
gt_raises(cfg) ==
    \/ (Word("timeout_sec") \in DOMAIN cfg /\ ~IsInt(cfg[Word("timeout_sec")]))
    \/ (Word("num_agents") \in DOMAIN cfg /\ ~IsInt(cfg[Word("num_agents")]))

\* key = (network, timeout, agents, algo)
gt_key(cfg) ==
    <<dict_get(cfg, Word("network_type"), Word("UNKNOWN")),
      resolve_int(cfg, Word("timeout_sec"), NoMatch, "g3"),
      resolve_int(cfg, Word("num_agents"), NoMatch, "g4"),
      dict_get(cfg, Word("algorithm"), Word("UNKNOWN"))>>

gt_value(res) ==
    [avg_cost |-> Rat(Sum(Column(res, "final_cost")), Len(res)),
     avg_rounds |-> Rat(Sum(Column(res, "rounds")), Len(res))]

(***************************************************************************)
(* analyze_rounds.py                                                       *)
(***************************************************************************)
\* re.match(r'test_comparison_\d+_(\w+)_(RANDOM|SCALE_FREE)_t(\d+)_n(\d+)_results\.csv')
parse_filename(name) ==
    IF /\ name.form = "config"
       /\ name.stem = "test_comparison"
       /\ name.net \in {"RANDOM", "SCALE_FREE"}
    THEN [ok |-> TRUE, algorithm |-> Word(name.algo), network |-> Word(name.net),
          timeout |-> IntVal(name.t), agents |-> IntVal(name.n)]
    ELSE NoMatch

ResultsMarker == <<"#", " ", "Results">>

\* the loop of read_rounds; st = [in_results, header_seen, rounds]
read_rounds_line(st, rawline) ==
    LET line  == strip(rawline)
        parts == split(line)
    IN  IF line = ResultsMarker THEN [st EXCEPT !.in_results = TRUE]
        ELSE IF st.in_results /\ ~st.header_seen THEN [st EXCEPT !.header_seen = TRUE]
        ELSE IF st.in_results /\ line # <<>> /\ Head(line) # "#"
                /\ Len(parts) >= 4 /\ IsInt(parts[4])
        THEN [st EXCEPT !.rounds = Append(@, IntVal(parts[4]))]
        ELSE st

RECURSIVE read_rounds_loop(_, _)
read_rounds_loop(st, lines) ==
    IF lines = <<>> THEN st
    ELSE read_rounds_loop(read_rounds_line(st, Head(lines)), Tail(lines))

read_rounds(lines) ==
    read_rounds_loop([in_results |-> FALSE, header_seen |-> FALSE, rounds |-> <<>>],
                     lines).rounds

\* zero_count / len(rounds) * 100
zero_pct(zero_count, n) == Rat(zero_count * 100, n)

\* one line of the per-configuration table of main
rounds_row(key, rnds) ==
    LET zero_count == count_zero(rnds)
    IN  [key |-> key, min_r |-> Min(rnds), max_r |-> Max(rnds),
         avg_r |-> Rat(Sum(rnds), Len(rnds)),
         zero_count |-> zero_count,
         zero_pct |-> zero_pct(zero_count, Len(rnds)),
         status |-> IF zero_count = Len(rnds) THEN "ALL ZERO (timeout)"
                    ELSE IF zero_count > 0 THEN "MIXED"
                    ELSE IF Max(rnds) = Min(rnds) THEN "ALL ROUND"
                    ELSE "CONVERGED"]

(***************************************************************************)
(* analyze_results.py : print_comparison_table                             *)
(***************************************************************************)
\* order of the symbols that occur in network names, as Python orders strings
WordOrder == <<"MAXSUM", "PDSA", "PMAXSUM", "PMGM", "RANDOM", "SCALE_FREE", "UNKNOWN">>

SymRank(c) ==
    IF c \in Digits THEN DigitVal(c)
    ELSE 10 + (CHOOSE k \in 1..Len(WordOrder) : WordOrder[k] = c)

RECURSIVE StrLess(_, _)
StrLess(a, b) ==
    IF b = <<>> THEN FALSE
    ELSE IF a = <<>> THEN TRUE
    ELSE IF Head(a) = Head(b) THEN StrLess(Tail(a), Tail(b))
    ELSE SymRank(Head(a)) < SymRank(Head(b))

\* tuple order of (network, timeout, agents)
TripleLess(x, y) ==
    \/ StrLess(x[1], y[1])
    \/ (x[1] = y[1] /\ x[2] < y[2])
    \/ (x[1] = y[1] /\ x[2] = y[2] /\ x[3] < y[3])

\* sorted(grouped.keys())
RECURSIVE sorted_triples(_)
sorted_triples(S) ==
    IF S = {} THEN <<>>
    ELSE LET m == CHOOSE x \in S : \A y \in S : y = x \/ TripleLess(x, y)
         IN  <<m>> \o sorted_triples(S \ {m})

all_algos(d) == {d[k].algorithm : k \in 1..Len(d)}

has_pmaxsum(d) == Word("PMAXSUM") \in all_algos(d)

table_key(e) == <<e.network, e.timeout, e.agents>>

\* grouped[key][d['algorithm']] = d : a later entry replaces an earlier one
grouped(d, key) ==
    LET at == {k \in 1..Len(d) : table_key(d[k]) = key}
    IN  [a \in {d[k].algorithm : k \in at} |->
             d[CHOOSE k \in at : d[k].algorithm = a
                                 /\ \A m \in at : d[m].algorithm = a => m <= k]]

grouped_keys(d) == {table_key(d[k]) : k \in 1..Len(d)}

NaN == Rat(0, 0)
is_nan(v) == v.den = 0

\* algos.get(name, {}).get('avg_cost', float('nan'))
cost_of(algos, name) ==
    IF Word(name) \in DOMAIN algos THEN algos[Word(name)].avg_cost ELSE NaN

\* the names whose cost enters the dict costs, in insertion order
cost_names(has_pm) ==
    IF has_pm THEN <<"PDSA", "PMGM", "PMAXSUM">> ELSE <<"PDSA", "PMGM">>

\* winner of one row
row_winner(algos, has_pm) ==
    LET valid   == SelectSeq(cost_names(has_pm),
                             LAMBDA k : ~is_nan(cost_of(algos, k)))
        isMin(k) == \A m \in 1..Len(valid) :
                        RatLeq(cost_of(algos, k), cost_of(algos, valid[m]))
        winners == SelectSeq(valid, isMin)
    IN  IF valid = <<>> THEN "N/A"
        ELSE IF Len(winners) = 1 THEN winners[1]
        ELSE "TIE"

\* wins[k] += 1 on a defaultdict(int)
wins_inc(w, k) ==
    [n \in (DOMAIN w) \cup {k} |->
        IF n = k THEN dict_get(w, k, 0) + 1 ELSE w[n]]

wins_after(w, winner) == IF winner = "N/A" THEN w ELSE wins_inc(w, winner)

\* round(n / d) to the nearest integer, ties to even, as the 'f' format rounds
\* the exact value (d > 0)
round_half_even(n, d) ==
    LET q == n \div d
        r == n % d
    IN  IF 2 * r < d THEN q
        ELSE IF 2 * r > d THEN q + 1
        ELSE IF q % 2 = 0 THEN q ELSE q + 1

\* f"{v:.1f}" (scale 10) and f"{v:.0f}" (scale 1): the text is "nan" for a NaN,
\* else the number whose value times scale is units
format_f(v, scale) ==
    IF is_nan(v) THEN [text |-> "nan", units |-> 0]
    ELSE [text |-> "number", units |-> round_half_even(v.num * scale, v.den)]

\* the literal "N/A" strings of the PMAXSUM columns
NotAvailable == [text |-> "N/A", units |-> 0]

\* algos.get(name, {}).get('avg_rounds', float('nan'))
rounds_of(algos, name) ==
    IF Word(name) \in DOMAIN algos THEN algos[Word(name)].avg_rounds ELSE NaN

\* "*" if algos.get(name, {}).get('zero_round_count', 0) > 0 else " "
marker_of(algos, name) ==
    IF Word(name) \in DOMAIN algos /\ algos[Word(name)].zero_round_count > 0
    THEN "*" ELSE " "

\* the cost, marker and rounds cells of the PDSA and PMGM columns
plain_cells(algos, name) ==
    [cost |-> format_f(cost_of(algos, name), 10),
     marker |-> marker_of(algos, name),
     rounds |-> format_f(rounds_of(algos, name), 10)]

\* pmaxsum_cost_str, pmaxsum_rounds_str
pmaxsum_cells(algos) ==
    IF Word("PMAXSUM") \in DOMAIN algos
    THEN plain_cells(algos, "PMAXSUM")
    ELSE [cost |-> NotAvailable, marker |-> " ", rounds |-> NotAvailable]

\* the columns of one printed row
row_cells(algos, has_pm) ==
    IF has_pm
    THEN [name \in {"PDSA", "PMGM", "PMAXSUM"} |->
             IF name = "PMAXSUM" THEN pmaxsum_cells(algos)
             ELSE plain_cells(algos, name)]
    ELSE [name \in {"PDSA", "PMGM"} |-> plain_cells(algos, name)]

print_row(key, algos, has_pm) ==
    [network |-> key[1], timeout |-> key[2], agents |-> key[3],
     cells |-> row_cells(algos, has_pm),
     winner |-> row_winner(algos, has_pm)]

(***************************************************************************)
(* analyze_results.py : print_summary_by_agents                            *)
(***************************************************************************)
RatAdd(a, b) == Rat(a.num * b.den + b.num * a.den, a.den * b.den)

RECURSIVE RatSum(_)
RatSum(xs) == IF xs = <<>> THEN Rat(0, 1) ELSE RatAdd(Head(xs), RatSum(Tail(xs)))

\* sum(xs) / len(xs) for a list of quotients
RatMean(xs) == Rat(RatSum(xs).num, RatSum(xs).den * Len(xs))

\* grouped[(d['algorithm'], d['agents'])] : the entries of the group, in order
summary_group(d, algo, agents) ==
    SelectSeq(d, LAMBDA e : e.algorithm = algo /\ e.agents = agents)

\* the dict appended to summary for one group
summary_entry(items) ==
    LET total_zero     == Sum([k \in 1..Len(items) |-> items[k].zero_round_count])
        total_problems == Sum([k \in 1..Len(items) |-> items[k].num_problems])
    IN  [avg_cost |-> RatMean([k \in 1..Len(items) |-> items[k].avg_cost]),
         avg_rounds |-> RatMean([k \in 1..Len(items) |-> items[k].avg_rounds]),
         zero_round_pct |-> IF total_problems > 0
                            THEN Rat(100 * total_zero, total_problems)
                            ELSE Rat(0, 1)]

\* cost, rounds and zero-round cells of one algorithm at one agent count;
\* an algorithm without entry gets nan, nan and the number 0
summary_cells(d, name, agents) ==
    LET items == summary_group(d, Word(name), agents)
    IN  IF items # <<>>
        THEN [cost |-> format_f(summary_entry(items).avg_cost, 10),
              rounds |-> format_f(summary_entry(items).avg_rounds, 10),
              zero |-> format_f(summary_entry(items).zero_round_pct, 1)]
        ELSE [cost |-> format_f(NaN, 10),
              rounds |-> format_f(NaN, 10),
              zero |-> format_f(Rat(0, 1), 1)]

\* pmaxsum_str
summary_pmaxsum_cells(d, agents) ==
    IF summary_group(d, Word("PMAXSUM"), agents) # <<>>
    THEN summary_cells(d, "PMAXSUM", agents)
    ELSE [cost |-> NotAvailable, rounds |-> NotAvailable, zero |-> NotAvailable]

summary_row(d, agents) ==
    [agents |-> agents,
     cells |-> IF has_pmaxsum(d)
               THEN [name \in {"PDSA", "PMGM", "PMAXSUM"} |->
                        IF name = "PMAXSUM" THEN summary_pmaxsum_cells(d, agents)
                        ELSE summary_cells(d, name, agents)]
               ELSE [name \in {"PDSA", "PMGM"} |-> summary_cells(d, name, agents)]]

\* sorted(set(d['agents'] for d in summary))
RECURSIVE sorted_ints(_)
sorted_ints(S) ==
    IF S = {} THEN <<>>
    ELSE LET m == CHOOSE x \in S : \A y \in S : x <= y
         IN  <<m>> \o sorted_ints(S \ {m})

print_summary_by_agents(d) ==
    LET agents_list == sorted_ints({d[k].agents : k \in 1..Len(d)})
    IN  [n \in 1..Len(agents_list) |-> summary_row(d, agents_list[n])]

(***************************************************************************)
(* generate_table.py : print_table                                         *)
(***************************************************************************)
TableNetworks == <<Word("RANDOM"), Word("SCALE_FREE")>>
TableTimeouts == <<60, 120, 180>>
TableAlgos == <<Word("PDSA"), Word("PMGM"), Word("PMAXSUM")>>
TableAgents == <<10, 20, 30, 40, 50, 60, 70, 80, 90, 100>>

Range(seq) == {seq[k] : k \in 1..Len(seq)}

\* key = (network, timeout, agents, algo) of every cell of the two tables
TableCellKeys == Range(TableNetworks) \X Range(TableTimeouts) \X Range(TableAgents) \X Range(TableAlgos)

\* cell = f"{cost:.0f}({rounds:.0f})" if key in data else "N/A"
print_table_cell(d, key) ==
    IF key \in DOMAIN d
    THEN [cost |-> format_f(d[key].avg_cost, 1), rounds |-> format_f(d[key].avg_rounds, 1)]
    ELSE [cost |-> NotAvailable, rounds |-> NotAvailable]

print_table(d) == [key \in TableCellKeys |-> print_table_cell(d, key)]

(***************************************************************************)
(* Problem-export files offered to the verifier                            *)
(***************************************************************************)
MaxProblemId == 2      \* problem ids 1..MaxProblemId
MaxRows == 2           \* rows per problem-export file
MaxArgs == 3           \* command-line arguments of the verifier

DigitStr(n) == <<CHOOSE c \in Digits : DigitVal(c) = n>>

BaseRecord ==
    [num_agents |-> <<"1">>, domain_size |-> <<"1">>, num_edges |-> <<"1">>,
     edges |-> <<"1">>, cost_matrices |-> <<"1">>]

\* the value a field takes when it is the one that is changed
AltValue ==
    [num_agents |-> <<"1", "1">>, domain_size |-> <<"1", "1">>,
     num_edges |-> <<"2">>, edges |-> <<"2">>, cost_matrices |-> <<"2">>]

RecordPool ==
    {BaseRecord} \cup
    {[BaseRecord EXCEPT ![FieldNames[k]] = AltValue[FieldNames[k]]] : k \in 1..5}

MkRow(pid, seed, rec) ==
    [problem_id |-> DigitStr(pid), seed |-> DigitStr(seed),
     num_agents |-> rec.num_agents, domain_size |-> rec.domain_size,
     num_edges |-> rec.num_edges, edges |-> rec.edges,
     cost_matrices |-> rec.cost_matrices]

\* problem 1 / seed 1 comes with every record of the pool, the other keys
\* with the base record
OtherKeys == {<<p, 1>> : p \in 2..MaxProblemId} \cup {<<1, 2>>}

RowPool ==
    {MkRow(1, 1, r) : r \in RecordPool} \cup
    {MkRow(k[1], k[2], BaseRecord) : k \in OtherKeys}

ExportFiles == UNION {[1..n -> RowPool] : n \in 0..MaxRows}

\* command-line arguments: a name, whether a file of that name exists, its rows
ArgPool ==
    { [name |-> "-h",    exists |-> FALSE, rows |-> <<>>],
      [name |-> "a.csv", exists |-> TRUE,  rows |-> <<MkRow(1, 1, BaseRecord)>>],
      [name |-> "b.csv", exists |-> TRUE,
       rows |-> <<MkRow(1, 1, BaseRecord), MkRow(1, 2, BaseRecord)>>],
      [name |-> "c.csv", exists |-> TRUE,
       rows |-> <<MkRow(1, 1, [BaseRecord EXCEPT !.edges = <<"2">>])>>],
      [name |-> "gone.csv", exists |-> FALSE, rows |-> <<>>] }

ArgLists == UNION {[1..n -> ArgPool] : n \in 0..MaxArgs}

(***************************************************************************)
(* compare_problems as a program of its own                                *)
(***************************************************************************)
MainIdle ==
    /\ argv = <<>> /\ vpc = "idle" /\ vi = 0 /\ vj = 0
    /\ all_differences = <<>> /\ comparison_count = 0
    /\ compared = <<>> /\ exit_status = -1

CompareIdle ==
    /\ file1 = <<>> /\ file2 = <<>> /\ differences = <<>> /\ cpc = "idle"

PipeIdle ==
    /\ prog = "none" /\ dir = <<>> /\ idx = 0
    /\ config = EmptyDict /\ results = <<>> /\ rounds = <<>>
    /\ data = <<>> /\ gt_data = EmptyDict /\ all_results = EmptyDict
    /\ apc = "idle" /\ ridx = 0 /\ table = <<>> /\ wins = EmptyDict
    /\ rounds_rows = <<>> /\ status = -1
    /\ summary = <<>> /\ gt_table = EmptyDict

InitCompare ==
    /\ file1 \in ExportFiles
    /\ file2 \in ExportFiles
    /\ differences = <<>>
    /\ cpc = "call"
    /\ MainIdle
    /\ PipeIdle

CompareProblems ==
    /\ cpc = "call"
    /\ differences' = compare_problems("file1", "file2", file1, file2)
    /\ cpc' = "returned"
    /\ UNCHANGED <<file1, file2, argv, vpc, vi, vj, all_differences,
                   comparison_count, compared, exit_status, pipeVars>>

NextCompare == CompareProblems

SpecCompare == InitCompare /\ [][NextCompare]_vars

(***************************************************************************)
(* verify_problems.py : main                                               *)
(***************************************************************************)
\* variant: the inner loop runs over files[i+2:]
inner_start_skip(i) == i + 2

\* files[i+1:] : index of the first file2 paired with files[i]
inner_start(i) == i + 1

InitMain ==
    /\ argv \in ArgLists
    /\ vpc = "start"
    /\ vi = 0 /\ vj = 0
    /\ all_differences = <<>>
    /\ comparison_count = 0
    /\ compared = <<>>
    /\ exit_status = -1
    /\ CompareIdle
    /\ PipeIdle

\* position of the pair loop once the inner loop reaches index j for outer
\* index i: skips outer iterations whose slice is empty, leaves the loop at the end
RECURSIVE loop_position(_, _, _)
loop_position(i, j, n) ==
    IF i > n THEN <<"report", i, j>>
    ELSE IF j > n THEN loop_position(i + 1, inner_start(i + 1), n)
    ELSE <<"loop", i, j>>

mainUnchangedCompare == UNCHANGED <<file1, file2, differences, cpc, pipeVars>>

\* len(sys.argv) < 2
MainNoArgs ==
    /\ vpc = "start"
    /\ Len(argv) = 0
    /\ vpc' = "exit" /\ exit_status' = 1
    /\ UNCHANGED <<argv, vi, vj, all_differences, comparison_count, compared>>
    /\ mainUnchangedCompare

\* sys.argv[1] in ['-h', '--help']
MainHelp ==
    /\ vpc = "start"
    /\ Len(argv) >= 1
    /\ argv[1].name \in {"-h", "--help"}
    /\ vpc' = "exit" /\ exit_status' = 0
    /\ UNCHANGED <<argv, vi, vj, all_differences, comparison_count, compared>>
    /\ mainUnchangedCompare

\* len(files) < 2
MainTooFew ==
    /\ vpc = "start"
    /\ Len(argv) = 1
    /\ argv[1].name \notin {"-h", "--help"}
    /\ vpc' = "exit" /\ exit_status' = 1
    /\ UNCHANGED <<argv, vi, vj, all_differences, comparison_count, compared>>
    /\ mainUnchangedCompare

MainBegin ==
    /\ vpc = "start"
    /\ Len(argv) >= 2
    /\ argv[1].name \notin {"-h", "--help"}
    /\ LET pos == loop_position(1, inner_start(1), Len(argv))
       IN  vpc' = pos[1] /\ vi' = pos[2] /\ vj' = pos[3]
    /\ UNCHANGED <<argv, all_differences, comparison_count, compared, exit_status>>
    /\ mainUnchangedCompare

\* one iteration of the inner loop: both files open
MainComparePair ==
    /\ vpc = "loop"
    /\ argv[vi].exists /\ argv[vj].exists
    /\ LET d   == compare_problems(argv[vi].name, argv[vj].name,
                                   argv[vi].rows, argv[vj].rows)
           pos == loop_position(vi, vj + 1, Len(argv))
       IN  /\ all_differences' = all_differences \o d
           /\ vpc' = pos[1] /\ vi' = pos[2] /\ vj' = pos[3]
    /\ comparison_count' = comparison_count + 1
    /\ compared' = Append(compared, <<vi, vj>>)
    /\ UNCHANGED <<argv, exit_status>>
    /\ mainUnchangedCompare

\* one iteration of the inner loop: read_problems hits FileNotFoundError
MainCompareMissing ==
    /\ vpc = "loop"
    /\ ~(argv[vi].exists /\ argv[vj].exists)
    /\ comparison_count' = comparison_count + 1
    /\ compared' = Append(compared, <<vi, vj>>)
    /\ vpc' = "exit" /\ exit_status' = 1
    /\ UNCHANGED <<argv, vi, vj, all_differences>>
    /\ mainUnchangedCompare

MainReportSuccess ==
    /\ vpc = "report"
    /\ all_differences = <<>>
    /\ vpc' = "exit" /\ exit_status' = 0
    /\ UNCHANGED <<argv, vi, vj, all_differences, comparison_count, compared>>
    /\ mainUnchangedCompare

MainReportFailure ==
    /\ vpc = "report"
    /\ all_differences # <<>>
    /\ vpc' = "exit" /\ exit_status' = 1
    /\ UNCHANGED <<argv, vi, vj, all_differences, comparison_count, compared>>
    /\ mainUnchangedCompare

NextMain ==
    \/ MainNoArgs
    \/ MainHelp
    \/ MainTooFew
    \/ MainBegin
    \/ MainComparePair
    \/ MainCompareMissing
    \/ MainReportSuccess
    \/ MainReportFailure

SpecMain == InitMain /\ [][NextMain]_vars

(***************************************************************************)
(* Result files offered to the analysis scripts                            *)
(***************************************************************************)
MaxFiles == 3          \* result files in a directory
MaxDataRows == 3       \* data lines of the result file of a one-file directory

NL == <<"\n">>

RECURSIVE Join(_)
Join(fields) ==
    IF fields = <<>> THEN <<>>
    ELSE IF Len(fields) = 1 THEN fields[1]
    ELSE fields[1] \o <<",">> \o Join(Tail(fields))

S0 == <<"0">>
S1 == <<"1">>
S2 == <<"2">>
S3 == <<"3">>
S4 == <<"4">>
S5 == <<"5">>
S10 == <<"1", "0">>
S20 == <<"2", "0">>
S50 == <<"5", "0">>
S60 == <<"6", "0">>
S100 == <<"1", "0", "0">>
S120 == <<"1", "2", "0">>
S200 == <<"2", "0", "0">>
S300 == <<"3", "0", "0">>
S400 == <<"4", "0", "0">>
S500 == <<"5", "0", "0">>
S600 == <<"6", "0", "0">>
S700 == <<"7", "0", "0">>

FullHeader ==
    <<Word("algorithm"), Word("network_type"), Word("timeout_sec"), Word("num_agents")>>

ResultHeader ==
    <<Word("problem_id"), Word("seed"), Word("final_cost"), Word("rounds"),
      Word("runtime_ms")>>

\* the lines of a result file: configuration block, results block
FileLines(header, values, rows) ==
    << <<"#", " ", "Configuration", "\n">>,
       Join(header) \o NL,
       Join(values) \o NL,
       NL,
       <<"#", " ", "Results", "\n">>,
       Join(ResultHeader) \o NL >> \o rows

RowLine(fields) == Join(fields) \o NL

\* a data line problem_id,seed,final_cost,rounds,runtime_ms
Trial(pid, cost, rnds) == RowLine(<<pid, pid, cost, rnds, S5>>)

\* <stem>_<id>_<algo>_<net>_t<t>_n<n>_results.csv
ConfigName(id, algo, net, t, n) ==
    [form |-> "config", stem |-> "test_comparison", id |-> id,
     algo |-> algo, net |-> net, t |-> t, n |-> n]

\* <stem>_<id>_results.csv
PlainName(id) ==
    [form |-> "plain", stem |-> "summary", id |-> id,
     algo |-> "", net |-> "", t |-> <<>>, n |-> <<>>]

ResultFile(name, header, values, rows) ==
    [name |-> name, lines |-> FileLines(header, values, rows)]

FullConfig(algo, net, t, n) == <<Word(algo), Word(net), t, n>>

\* files whose in-file configuration is complete and whose rows all parse
WellFormedPool ==
    { ResultFile(ConfigName(1, "PDSA", "RANDOM", S60, S10), FullHeader,
                 FullConfig("PDSA", "RANDOM", S60, S10), <<Trial(S1, S100, S5)>>),
      ResultFile(ConfigName(2, "PMGM", "RANDOM", S60, S10), FullHeader,
                 FullConfig("PMGM", "RANDOM", S60, S10), <<Trial(S1, S100, S0)>>),
      ResultFile(ConfigName(3, "PMAXSUM", "RANDOM", S60, S10), FullHeader,
                 FullConfig("PMAXSUM", "RANDOM", S60, S10), <<Trial(S1, S100, S5)>>),
      ResultFile(ConfigName(4, "MAXSUM", "RANDOM", S60, S10), FullHeader,
                 FullConfig("MAXSUM", "RANDOM", S60, S10), <<Trial(S1, S50, S5)>>),
      ResultFile(ConfigName(5, "PDSA", "RANDOM", S60, S10), FullHeader,
                 FullConfig("PDSA", "RANDOM", S60, S10),
                 <<Trial(S1, S100, S0), Trial(S2, S200, S5)>>),
      ResultFile(ConfigName(6, "PMGM", "SCALE_FREE", S120, S20), FullHeader,
                 FullConfig("PMGM", "SCALE_FREE", S120, S20), <<Trial(S1, S50, S5)>>) }

\* files with a missing or partial in-file configuration, or without usable rows
PartialPool ==
    { \* no in-file configuration, configuration in the name
      ResultFile(ConfigName(7, "PDSA", "RANDOM", S60, S10), <<>>, <<>>,
                 <<Trial(S1, S200, S5)>>),
      \* no configuration anywhere
      ResultFile(PlainName(8), <<>>, <<>>, <<Trial(S1, S100, S5)>>),
      \* timeout_sec present but empty
      ResultFile(ConfigName(9, "PDSA", "RANDOM", S60, S10), FullHeader,
                 <<Word("PDSA"), Word("RANDOM"), <<>>, S10>>, <<Trial(S1, S100, S5)>>),
      \* algorithm present but empty
      ResultFile(ConfigName(10, "PMGM", "RANDOM", S60, S10), FullHeader,
                 <<<<>>, Word("RANDOM"), S60, S10>>, <<Trial(S1, S50, S5)>>),
      \* the values line stops before num_agents
      ResultFile(ConfigName(12, "PMGM", "RANDOM", S60, S10), FullHeader,
                 <<Word("PMGM"), Word("RANDOM"), S60>>, <<Trial(S1, S200, S5)>>),
      \* a file of two lines
      [name |-> ConfigName(14, "PDSA", "RANDOM", S60, S10),
       lines |-> << <<"#", " ", "Configuration", "\n">>, Join(FullHeader) \o NL >>] }

FilePool == WellFormedPool \cup PartialPool

\* directory listings: every file once at most, in any order
Listings ==
    UNION {{l \in [1..n -> FilePool] : \A a, b \in 1..n : l[a] = l[b] => a = b}
           : n \in 0..MaxFiles}

\* data lines of the file of a one-file directory
DataLinePool ==
    { RowLine(<<S1, S100, S500, S10, S200>>),
      RowLine(<<S2, S200, S600, S0, S50>>),
      RowLine(<<S3, S300, Word("NaN"), S5, S100>>),
      RowLine(<<S4, S400, S700, S0>>),
      RowLine(<<S4, S400, S700, S0, S5, Word("note")>>),
      RowLine(<<S4, S400, <<"-", "5">>, <<" ", "3">>, S5, S1>>),
      NL,
      <<"#", " ", "comment", ",", "1", ",", "2", ",", "3", ",", "4", "\n">> }

OneFileListings ==
    { <<ResultFile(ConfigName(1, "PDSA", "RANDOM", S60, S10), FullHeader,
                   FullConfig("PDSA", "RANDOM", S60, S10), rows)>>
      : rows \in UNION {[1..n -> DataLinePool] : n \in 0..MaxDataRows} }

Programs == {"analyze_results", "generate_table", "analyze_rounds"}

(***************************************************************************)
(* The analysis scripts as state machines                                  *)
(***************************************************************************)
Init ==
    /\ prog \in Programs
    /\ dir \in Listings \cup OneFileListings
    /\ idx = 0
    /\ config = EmptyDict /\ results = <<>> /\ rounds = <<>>
    /\ data = <<>> /\ gt_data = EmptyDict /\ all_results = EmptyDict
    /\ apc = "scan" /\ ridx = 0 /\ table = <<>> /\ wins = EmptyDict
    /\ rounds_rows = <<>> /\ status = -1
    /\ summary = <<>> /\ gt_table = EmptyDict
    /\ CompareIdle
    /\ MainIdle

\* ---- analyze_results.py ----
\* if not results: continue
AR_SkipFile ==
    /\ prog = "analyze_results" /\ apc = "scan" /\ idx < Len(dir)
    /\ LET parsed == parse_result_file(dir[idx + 1].lines)
       IN  /\ parsed.results = <<>>
           /\ config' = parsed.config /\ results' = parsed.results
    /\ idx' = idx + 1
    /\ UNCHANGED <<prog, dir, rounds, data, gt_data, all_results, apc, ridx,
                   table, wins, rounds_rows, status, verifyVars, summary, gt_table>>

\* int() of the timeout or agent count raises ValueError
AR_Crash ==
    /\ prog = "analyze_results" /\ apc = "scan" /\ idx < Len(dir)
    /\ LET parsed == parse_result_file(dir[idx + 1].lines)
       IN  /\ parsed.results # <<>>
           /\ resolve_raises(parsed.config, re_search(dir[idx + 1].name))
           /\ config' = parsed.config /\ results' = parsed.results
    /\ apc' = "crashed" /\ status' = 1
    /\ UNCHANGED <<prog, dir, idx, rounds, data, gt_data, all_results, ridx,
                   table, wins, rounds_rows, verifyVars, summary, gt_table>>

AR_AddFile ==
    /\ prog = "analyze_results" /\ apc = "scan" /\ idx < Len(dir)
    /\ LET parsed == parse_result_file(dir[idx + 1].lines)
           match  == re_search(dir[idx + 1].name)
       IN  /\ parsed.results # <<>>
           /\ ~resolve_raises(parsed.config, match)
           /\ config' = parsed.config /\ results' = parsed.results
           /\ data' = Append(data, make_entry(parsed.config, match, parsed.results))
    /\ idx' = idx + 1
    /\ UNCHANGED <<prog, dir, rounds, gt_data, all_results, apc, ridx,
                   table, wins, rounds_rows, status, verifyVars, summary, gt_table>>

\* main: if not data: return 1
AR_NoData ==
    /\ prog = "analyze_results" /\ apc = "scan" /\ idx = Len(dir)
    /\ data = <<>>
    /\ apc' = "exit" /\ status' = 1
    /\ UNCHANGED <<prog, dir, idx, config, results, rounds, data, gt_data,
                   all_results, ridx, table, wins, rounds_rows, verifyVars, summary, gt_table>>

AR_BeginTable ==
    /\ prog = "analyze_results" /\ apc = "scan" /\ idx = Len(dir)
    /\ data # <<>>
    /\ apc' = "table" /\ ridx' = 0 /\ table' = <<>> /\ wins' = EmptyDict
    /\ UNCHANGED <<prog, dir, idx, config, results, rounds, data, gt_data,
                   all_results, rounds_rows, status, verifyVars, summary, gt_table>>

\* one iteration of: for key in sorted(grouped.keys())
AR_RankRow ==
    /\ prog = "analyze_results" /\ apc = "table"
    /\ LET keys == sorted_triples(grouped_keys(data))
       IN  /\ ridx < Len(keys)
           /\ LET row == print_row(keys[ridx + 1], grouped(data, keys[ridx + 1]),
                                   has_pmaxsum(data))
              IN  /\ table' = Append(table, row)
                  /\ wins' = wins_after(wins, row.winner)
    /\ ridx' = ridx + 1
    /\ UNCHANGED <<prog, dir, idx, config, results, rounds, data, gt_data,
                   all_results, apc, rounds_rows, status, verifyVars, summary, gt_table>>

AR_TableDone ==
    /\ prog = "analyze_results" /\ apc = "table"
    /\ ridx = Len(sorted_triples(grouped_keys(data)))
    /\ apc' = "summary"
    /\ UNCHANGED <<prog, dir, idx, config, results, rounds, data, gt_data,
                   all_results, ridx, table, wins, rounds_rows, status,
                   verifyVars, summary, gt_table>>

\* main: print_summary_by_agents(data); return 0
AR_Summary ==
    /\ prog = "analyze_results" /\ apc = "summary"
    /\ summary' = print_summary_by_agents(data)
    /\ apc' = "exit" /\ status' = 0
    /\ UNCHANGED <<prog, dir, idx, config, results, rounds, data, gt_data,
                   all_results, ridx, table, wins, rounds_rows, verifyVars, gt_table>>

\* ---- generate_table.py ----
GT_SkipFile ==
    /\ prog = "generate_table" /\ apc = "scan" /\ idx < Len(dir)
    /\ LET parsed == parse_result_file(dir[idx + 1].lines)
       IN  /\ parsed.results = <<>>
           /\ config' = parsed.config /\ results' = parsed.results
    /\ idx' = idx + 1
    /\ UNCHANGED <<prog, dir, rounds, data, gt_data, all_results, apc, ridx,
                   table, wins, rounds_rows, status, verifyVars, summary, gt_table>>

GT_Crash ==
    /\ prog = "generate_table" /\ apc = "scan" /\ idx < Len(dir)
    /\ LET parsed == parse_result_file(dir[idx + 1].lines)
       IN  /\ parsed.results # <<>>
           /\ gt_raises(parsed.config)
           /\ config' = parsed.config /\ results' = parsed.results
    /\ apc' = "crashed" /\ status' = 1
    /\ UNCHANGED <<prog, dir, idx, rounds, data, gt_data, all_results, ridx,
                   table, wins, rounds_rows, verifyVars, summary, gt_table>>

\* data[key] = {...}
GT_AddFile ==
    /\ prog = "generate_table" /\ apc = "scan" /\ idx < Len(dir)
    /\ LET parsed == parse_result_file(dir[idx + 1].lines)
           key    == gt_key(parsed.config)
       IN  /\ parsed.results # <<>>
           /\ ~gt_raises(parsed.config)
           /\ config' = parsed.config /\ results' = parsed.results
           /\ gt_data' = [k \in (DOMAIN gt_data) \cup {key} |->
                             IF k = key THEN gt_value(parsed.results) ELSE gt_data[k]]
    /\ idx' = idx + 1
    /\ UNCHANGED <<prog, dir, rounds, data, all_results, apc, ridx,
                   table, wins, rounds_rows, status, verifyVars, summary, gt_table>>

\* main: print_table(data, 'RANDOM'); print_table(data, 'SCALE_FREE'); return 0
GT_Done ==
    /\ prog = "generate_table" /\ apc = "scan" /\ idx = Len(dir)
    /\ gt_table' = print_table(gt_data)
    /\ apc' = "exit" /\ status' = 0
    /\ UNCHANGED <<prog, dir, idx, config, results, rounds, data, gt_data,
                   all_results, ridx, table, wins, rounds_rows, verifyVars, summary>>

\* ---- analyze_rounds.py ----
\* config = parse_filename(filename); if not config: continue
RD_SkipName ==
    /\ prog = "analyze_rounds" /\ apc = "scan" /\ idx < Len(dir)
    /\ ~parse_filename(dir[idx + 1].name).ok
    /\ idx' = idx + 1
    /\ UNCHANGED <<prog, dir, config, results, rounds, data, gt_data, all_results,
                   apc, ridx, table, wins, rounds_rows, status, verifyVars, summary, gt_table>>

\* rounds = read_rounds(filepath); if rounds: all_results[key] = rounds
RD_ReadFile ==
    /\ prog = "analyze_rounds" /\ apc = "scan" /\ idx < Len(dir)
    /\ LET cfg == parse_filename(dir[idx + 1].name)
           rr  == read_rounds(dir[idx + 1].lines)
           key == <<cfg.algorithm, cfg.network, cfg.timeout, cfg.agents>>
       IN  /\ cfg.ok
           /\ rounds' = rr
           /\ all_results' =
                 IF rr # <<>>
                 THEN [k \in (DOMAIN all_results) \cup {key} |->
                          IF k = key THEN rr ELSE all_results[k]]
                 ELSE all_results
    /\ idx' = idx + 1
    /\ UNCHANGED <<prog, dir, config, results, data, gt_data, apc, ridx,
                   table, wins, rounds_rows, status, verifyVars, summary, gt_table>>

\* the keys main walks through, in loop order
GridNetworks == <<Word("RANDOM"), Word("SCALE_FREE")>>
GridAlgos == <<Word("PDSA"), Word("PMGM")>>
GridTimeouts == <<60, 120, 180>>
GridAgents == <<10, 20, 30, 40, 50, 60, 70, 80, 90, 100>>

GridKeys ==
    [k \in 1..120 |->
        <<GridAlgos[(((k - 1) \div 30) % 2) + 1],
          GridNetworks[((k - 1) \div 60) + 1],
          GridTimeouts[(((k - 1) \div 10) % 3) + 1],
          GridAgents[((k - 1) % 10) + 1]>>]

\* the lines printed for the keys that are in all_results (the others print MISSING)
rounds_table(keys, res) ==
    LET present == SelectSeq(keys, LAMBDA k : k \in DOMAIN res)
    IN  [n \in 1..Len(present) |-> rounds_row(present[n], res[present[n]])]

RD_Report ==
    /\ prog = "analyze_rounds" /\ apc = "scan" /\ idx = Len(dir)
    /\ rounds_rows' = rounds_table(GridKeys, all_results)
    /\ apc' = "exit" /\ status' = 0
    /\ UNCHANGED <<prog, dir, idx, config, results, rounds, data, gt_data,
                   all_results, ridx, table, wins, verifyVars, summary, gt_table>>

Next ==
    \/ AR_SkipFile
    \/ AR_Crash
    \/ AR_AddFile
    \/ AR_NoData
    \/ AR_BeginTable
    \/ AR_RankRow
    \/ AR_TableDone
    \/ AR_Summary
    \/ GT_SkipFile
    \/ GT_Crash
    \/ GT_AddFile
    \/ GT_Done
    \/ RD_SkipName
    \/ RD_ReadFile
    \/ RD_Report

Spec == Init /\ [][Next]_vars

(***************************************************************************)
(* Properties                                                              *)
(***************************************************************************)
\* number of elements of a sequence that satisfy a test
Count(seq, Test(_)) == Cardinality({k \in 1..Len(seq) : Test(seq[k])})

\* the (problem_id, seed) keys of the rows of a file
KeysOf(rows) == {<<IntVal(rows[k].problem_id), IntVal(rows[k].seed)>> : k \in 1..Len(rows)}

AllFiles == \A k \in 1..Len(argv) : argv[k].exists

IndexPairs(n) == {p \in (1..n) \X (1..n) : p[1] < p[2]}

PairDiverges(p) ==
    compare_problems(argv[p[1]].name, argv[p[2]].name,
                     argv[p[1]].rows, argv[p[2]].rows) # <<>>

\* C1: when main is given two or more existing problem-export files it
\* compares every unordered pair of them exactly once, and exits with status 0
\* if no pair produced a divergence and with status 1 otherwise.
C1_PairsOnceAndExitStatus ==
    (vpc = "exit" /\ Len(argv) >= 2 /\ AllFiles) =>
        /\ \A p \in IndexPairs(Len(argv)) :
              Count(compared, LAMBDA q : q = p \/ q = <<p[2], p[1]>>) = 1
        /\ Len(compared) = Cardinality(IndexPairs(Len(argv)))
        /\ exit_status \in {0, 1}
        /\ exit_status = 0 <=> ~ \E p \in IndexPairs(Len(argv)) : PairDiverges(p)

\* three files, the first pair agrees, another pair diverges, main has exited
C1_Witness ==
    /\ vpc = "exit" /\ Len(argv) = 3 /\ AllFiles
    /\ ~PairDiverges(<<1, 2>>)
    /\ PairDiverges(<<2, 3>>)
    /\ exit_status = 1

\* the two files, as read, hold the same keys and differ in exactly the field
\* f of the record of key
OneFieldApart(key, f) ==
    LET problems1 == read_problems(file1)
        problems2 == read_problems(file2)
    IN  /\ DOMAIN problems1 = DOMAIN problems2
        /\ key \in DOMAIN problems1
        /\ \A k \in DOMAIN problems1 :
              \A g \in 1..5 :
                 (problems1[k][FieldNames[g]] # problems2[k][FieldNames[g]])
                     <=> (k = key /\ g = f)

\* C2: if two files are identical except for one field of the record of one
\* (problem_id, seed) key, compare_problems returns exactly one divergence: a
\* content_mismatch for that key whose details are that field's name alone.
C2_SingleFieldMismatch ==
    cpc = "returned" =>
        \A key \in KeysOf(file1), f \in 1..5 :
            OneFieldApart(key, f) =>
                /\ Len(differences) = 1
                /\ differences[1].type = "content_mismatch"
                /\ <<differences[1].problem_id, differences[1].seed>> = key
                /\ differences[1].details = <<FieldNames[f]>>

\* two-row files that differ only in the cost_matrices of problem 1, seed 1
C2_Witness ==
    /\ cpc = "returned"
    /\ Len(file1) = 2
    /\ OneFieldApart(<<1, 1>>, 5)
    /\ Len(differences) = 1

\* C5: for every key of either file compare_problems emits exactly one
\* missing_in_file1 divergence if the key is absent from the first file,
\* exactly one missing_in_file2 divergence if it is absent from the second,
\* and no missing divergence if both files have the key.
C5_MissingKeys ==
    cpc = "returned" =>
        \A key \in KeysOf(file1) \cup KeysOf(file2) :
            /\ Count(differences, LAMBDA d : <<d.problem_id, d.seed>> = key
                                             /\ d.type = "missing_in_file1")
                 = (IF key \notin KeysOf(file1) THEN 1 ELSE 0)
            /\ Count(differences, LAMBDA d : <<d.problem_id, d.seed>> = key
                                             /\ d.type = "missing_in_file2")
                 = (IF key \notin KeysOf(file2) THEN 1 ELSE 0)

\* one key only in the first file, one only in the second, one in both
C5_Witness ==
    /\ cpc = "returned"
    /\ KeysOf(file1) \ KeysOf(file2) # {}
    /\ KeysOf(file2) \ KeysOf(file1) # {}
    /\ KeysOf(file1) \cap KeysOf(file2) # {}
    /\ \E k \in 1..Len(differences) : differences[k].type = "missing_in_file1"
    /\ \E k \in 1..Len(differences) : differences[k].type = "missing_in_file2"

\* ---- analysis scripts ----
Parsed(k) == parse_result_file(dir[k].lines)

\* analyze_results: the files of dir[1..idx] that got an entry, in order
AddedFiles == SelectSeq([k \in 1..idx |-> k], LAMBDA k : Parsed(k).results # <<>>)

\* the file the n-th entry of data was computed from
FileOfEntry(n) == dir[AddedFiles[n]]

Scanned == prog = "analyze_results" /\ apc \in {"table", "summary", "exit"}

\* the (algorithm, network, timeout, agents) of an entry of data
ConfigOf(e) == <<e.algorithm, e.network, e.timeout, e.agents>>

\* the algorithms that have an entry for the key (an entry whose algorithm is
\* empty or UNKNOWN names no algorithm), and those of least avg_cost
WithData(key) == (DOMAIN grouped(data, key)) \ {<<>>, Word("UNKNOWN")}

LeastCost(key) ==
    {a \in WithData(key) :
        \A b \in WithData(key) :
            RatLeq(grouped(data, key)[a].avg_cost, grouped(data, key)[b].avg_cost)}

\* the winner the ranking rule gives for a key, as a string of the table
RuleWinner(key) ==
    IF Cardinality(LeastCost(key)) >= 2 THEN Word("TIE")
    ELSE IF Cardinality(LeastCost(key)) = 1 THEN CHOOSE a \in LeastCost(key) : TRUE
    ELSE Word("N/A")

RowKey(r) == <<r.network, r.timeout, r.agents>>

\* C3: for every row of the comparison table the winner is TIE iff two or more
\* algorithms with data attain the same least average cost; a single algorithm
\* of least cost is the winner; the tallies count one win per row for the
\* winner, or for TIE, and nothing else.
C3_TieIffSharedMinimum ==
    (prog = "analyze_results" /\ apc \in {"table", "summary", "exit"}) =>
        /\ \A n \in 1..Len(table) :
              /\ table[n].winner = "TIE" <=> Cardinality(LeastCost(RowKey(table[n]))) >= 2
              /\ Cardinality(LeastCost(RowKey(table[n]))) = 1
                    => Word(table[n].winner) = RuleWinner(RowKey(table[n]))
        /\ \A name \in {"PDSA", "PMGM", "PMAXSUM", "MAXSUM", "TIE"} :
              dict_get(wins, name, 0)
                 = Count(table, LAMBDA r : RuleWinner(RowKey(r)) = Word(name))

\* trial rows of the directory whose file resolves to the configuration c
RowsOfConfig(c) ==
    Sum([k \in 1..Len(dir) |->
            IF /\ Parsed(k).results # <<>>
               /\ ConfigOf(make_entry(Parsed(k).config, re_search(dir[k].name),
                                      Parsed(k).results)) = c
            THEN Len(Parsed(k).results) ELSE 0])

WellFormedDir == \A k \in 1..Len(dir) : dir[k] \in WellFormedPool

\* C4: in a directory of well-formed files the sample count of every
\* configuration equals the number of trial rows, over all files, that resolve
\* to it.
C4_SampleCountIsTotal ==
    (Scanned /\ WellFormedDir) =>
        \A n \in 1..Len(data) : data[n].num_problems = RowsOfConfig(ConfigOf(data[n]))

\* C5 is stated with the verifier above; C6: each field of the resolved
\* configuration is the in-file value when present and non-empty, else the value
\* in the file name, else UNKNOWN or 0; an empty in-file value never aborts the run.
InFile(cfg, key) == key \in DOMAIN cfg /\ cfg[key] # <<>>

RuleWord(cfg, key, name, fromName) ==
    IF InFile(cfg, key) THEN cfg[key]
    ELSE IF name.form = "config" THEN Word(fromName)
    ELSE Word("UNKNOWN")

RuleInt(cfg, key, name, fromName) ==
    IF InFile(cfg, key) THEN IntVal(cfg[key])
    ELSE IF name.form = "config" THEN IntVal(fromName)
    ELSE 0

RuleConfig(f) ==
    LET cfg == parse_config(f.lines)
    IN  <<RuleWord(cfg, Word("algorithm"), f.name, f.name.algo),
          RuleWord(cfg, Word("network_type"), f.name, f.name.net),
          RuleInt(cfg, Word("timeout_sec"), f.name, f.name.t),
          RuleInt(cfg, Word("num_agents"), f.name, f.name.n)>>

C6_ConfigPrecedence ==
    prog = "analyze_results" =>
        /\ apc # "crashed"
        /\ \A n \in 1..Len(data) : ConfigOf(data[n]) = RuleConfig(FileOfEntry(n))

\* C7: a file with neither algorithm nor topology in either source leaves no
\* entry: no entry of data has algorithm UNKNOWN and network UNKNOWN.
C7_NoUnknownEntry ==
    prog = "analyze_results" =>
        \A n \in 1..Len(data) :
            ~(data[n].algorithm = Word("UNKNOWN") /\ data[n].network = Word("UNKNOWN"))

\* C8: the winner of a row is the algorithm when exactly one algorithm has data
\* for the row's triple, whatever its name, and is N/A only when none has.
C8_WinnerOverAllAlgorithms ==
    (prog = "analyze_results" /\ apc \in {"table", "summary", "exit"}) =>
        \A n \in 1..Len(table) :
            /\ Cardinality(WithData(RowKey(table[n]))) = 1
                  => Word(table[n].winner) \in WithData(RowKey(table[n]))
            /\ table[n].winner = "N/A" => WithData(RowKey(table[n])) = {}

\* the fields of a data line
FieldsOf(rawline) == split(strip(rawline))

TrialOf(rawline) ==
    LET f == FieldsOf(rawline)
    IN  [problem_id |-> IntVal(f[1]), seed |-> IntVal(f[2]),
         final_cost |-> IntVal(f[3]), rounds |-> IntVal(f[4]),
         runtime_ms |-> IntVal(f[5])]

\* the records of the lines from line 7 on that pass the test, in file order
TrialsWhere(lines, Keep(_)) ==
    LET kept == SelectSeq(SubSeq(lines, 7, Len(lines)), Keep)
    IN  [k \in 1..Len(kept) |-> TrialOf(kept[k])]

FirstFiveParse(rawline) ==
    Len(FieldsOf(rawline)) >= 5 /\ \A k \in 1..5 : IsInt(FieldsOf(rawline)[k])

EveryFieldParses(rawline) ==
    Len(FieldsOf(rawline)) >= 5
    /\ \A k \in 1..Len(FieldsOf(rawline)) : IsInt(FieldsOf(rawline)[k])

\* the file whose parse is held in config and results
LastParsed == IF apc = "crashed" THEN dir[idx + 1] ELSE dir[idx]

HasParsed == prog \in {"analyze_results", "generate_table"} /\ (idx >= 1 \/ apc = "crashed")

\* C9 as stated: a row with fewer than 5 fields or with any field that fails
\* integer parsing is dropped, every other row yields one record, in file order.
C9_AnyBadFieldDrops ==
    HasParsed => results = TrialsWhere(LastParsed.lines, EveryFieldParses)

\* C9 amended: a row with fewer than 5 fields, or with one of its first five
\* fields failing integer parsing, is dropped; every other row yields exactly
\* one record, in file order (fields after the fifth are not parsed).
C9_FirstFiveFieldsDecide ==
    HasParsed => results = TrialsWhere(LastParsed.lines, FirstFiveParse)

\* the scenario: rows (1,100,500,10,200), (2,200,600,0,50), (3,300,NaN,5,100)
C9_Witness ==
    /\ prog = "analyze_results" /\ apc = "exit" /\ Len(dir) = 1
    /\ SubSeq(dir[1].lines, 7, Len(dir[1].lines))
          = << RowLine(<<S1, S100, S500, S10, S200>>),
               RowLine(<<S2, S200, S600, S0, S50>>),
               RowLine(<<S3, S300, Word("NaN"), S5, S100>>) >>
    /\ Len(results) = 2
    /\ Len(data) = 1
    /\ data[1].num_problems = 2
    /\ RatEq(data[1].avg_cost, Rat(550, 1))
    /\ data[1].zero_round_count = 1
    /\ RatEq(data[1].zero_round_pct, Rat(50, 1))

AllZero(rs) == \A k \in 1..Len(rs) : rs[k] = 0

\* C10: every aggregated entry has zero_round_count <= num_problems, its
\* zero_round_pct is 100 * zero_round_count over the trial count of its own
\* group, and is 100 iff every trial of the group has rounds = 0.
C10_ZeroRoundPercentage ==
    /\ prog = "analyze_results" =>
          \A n \in 1..Len(data) :
             LET trials == parse_result_file(FileOfEntry(n).lines).results
             IN  /\ data[n].zero_round_count <= data[n].num_problems
                 /\ data[n].num_problems = Len(trials)
                 /\ RatEq(data[n].zero_round_pct,
                          Rat(100 * data[n].zero_round_count, Len(trials)))
                 /\ RatEq(data[n].zero_round_pct, Rat(100, 1))
                        <=> AllZero(Column(trials, "rounds"))
    /\ prog = "analyze_rounds" =>
          \A n \in 1..Len(rounds_rows) :
             LET rs == all_results[rounds_rows[n].key]
             IN  /\ rounds_rows[n].zero_count <= Len(rs)
                 /\ RatEq(rounds_rows[n].zero_pct,
                          Rat(100 * rounds_rows[n].zero_count, Len(rs)))
                 /\ RatEq(rounds_rows[n].zero_pct, Rat(100, 1)) <=> AllZero(rs)

\* one entry with every trial at zero rounds, one with some but not all
C10_Witness ==
    /\ prog = "analyze_results" /\ apc = "exit"
    /\ \E n \in 1..Len(data) : data[n].zero_round_count = data[n].num_problems
    /\ \E n \in 1..Len(data) :
          /\ data[n].zero_round_count > 0
          /\ data[n].zero_round_count < data[n].num_problems

HasEntry(name, key) == Word(name) \in DOMAIN grouped(data, key)

\* C11: in every rendered table a cell of an algorithm that has no data at the
\* row's configuration is the token N/A, never a number, a blank or anything else.
C11_MissingCellsAreNotAvailable ==
    /\ prog = "analyze_results" =>
          /\ \A n \in 1..Len(table) : \A name \in DOMAIN table[n].cells :
                ~HasEntry(name, RowKey(table[n])) =>
                    /\ table[n].cells[name].cost.text = "N/A"
                    /\ table[n].cells[name].rounds.text = "N/A"
          /\ \A n \in 1..Len(summary) : \A name \in DOMAIN summary[n].cells :
                summary_group(data, Word(name), summary[n].agents) = <<>> =>
                    /\ summary[n].cells[name].cost.text = "N/A"
                    /\ summary[n].cells[name].rounds.text = "N/A"
                    /\ summary[n].cells[name].zero.text = "N/A"
    /\ prog = "generate_table" =>
          \A key \in DOMAIN gt_table :
             key \notin DOMAIN gt_data =>
                 /\ gt_table[key].cost.text = "N/A"
                 /\ gt_table[key].rounds.text = "N/A"

\* the list analyze_directory returns for a listing in which no file raises
RECURSIVE scan_listing(_)
scan_listing(listing) ==
    IF listing = <<>> THEN <<>>
    ELSE LET parsed == parse_result_file(Head(listing).lines)
         IN  (IF parsed.results = <<>> THEN <<>>
              ELSE <<make_entry(parsed.config, re_search(Head(listing).name),
                                parsed.results)>>)
             \o scan_listing(Tail(listing))

\* the rows and tallies print_comparison_table gives for a data list
table_of(d) ==
    LET keys == sorted_triples(grouped_keys(d))
    IN  [n \in 1..Len(keys) |-> print_row(keys[n], grouped(d, keys[n]), has_pmaxsum(d))]

RECURSIVE tallies_of(_)
tallies_of(rows) ==
    IF rows = <<>> THEN EmptyDict
    ELSE wins_after(tallies_of(SubSeq(rows, 1, Len(rows) - 1)), rows[Len(rows)].winner)

report_of(listing) ==
    LET d == scan_listing(listing)
    IN  [table |-> table_of(d), wins |-> tallies_of(table_of(d)),
         summary |-> print_summary_by_agents(d)]

\* the orders in which the files of dir can be listed
Reorderings ==
    {l \in [1..Len(dir) -> Range(dir)] : \A a, b \in 1..Len(dir) : l[a] = l[b] => a = b}

RowsSorted == \A n \in 1..(Len(table) - 1) : TripleLess(RowKey(table[n]), RowKey(table[n + 1]))

\* C12: the rows of the report are in sorted order of the grouping key, and the
\* report (rows, their contents, the tallies) is the same for every order in
\* which the same files are listed.
C12_ReportIndependentOfListingOrder ==
    (prog = "analyze_results" /\ apc = "exit" /\ status = 0) =>
        /\ RowsSorted
        /\ \A l \in Reorderings :
              report_of(l) = [table |-> table, wins |-> wins, summary |-> summary]

\* the two files hold the same set of rows
SameRows == Range(file1) = Range(file2)

\* no two rows of the file have the same key and different fields
NoConflictingRows(rows) ==
    \A a, b \in 1..Len(rows) :
        (IntVal(rows[a].problem_id) = IntVal(rows[b].problem_id)
         /\ IntVal(rows[a].seed) = IntVal(rows[b].seed)) => rows[a] = rows[b]

\* C13 as stated: two files with the same set of rows, in whatever row order,
\* give no divergence (the argument order is free: file1 and file2 range over
\* the same files).
C13_SameRowsNoDivergence ==
    (cpc = "returned" /\ SameRows) => differences = <<>>

\* C13 amended: two files with the same set of rows, in whatever row order,
\* give no divergence provided no two of these rows have the same
\* (problem_id, seed) and different fields.
C13_SameRowsOneRecordPerKey ==
    (cpc = "returned" /\ SameRows /\ NoConflictingRows(file1)) => differences = <<>>

\* the same two rows of different keys and different records, in opposite order
C13_Witness ==
    /\ cpc = "returned" /\ SameRows /\ NoConflictingRows(file1)
    /\ Len(file1) = 2 /\ Len(file2) = 2
    /\ file1[1] = file2[2] /\ file1[2] = file2[1]
    /\ file1[1].problem_id = file1[2].problem_id
    /\ file1[1].num_agents # file1[2].num_agents
    /\ differences = <<>>

\* C14: for a key of both files a content_mismatch is reported iff one of the
\* five fields differs between the two records, and a reported
\* content_mismatch never has an empty details list.
C14_MismatchIffFieldDiffers ==
    cpc = "returned" =>
        LET problems1 == read_problems(file1)
            problems2 == read_problems(file2)
        IN  /\ \A key \in (DOMAIN problems1) \cap (DOMAIN problems2) :
                  (\E n \in 1..Len(differences) :
                       /\ differences[n].type = "content_mismatch"
                       /\ <<differences[n].problem_id, differences[n].seed>> = key)
                  <=> (\E g \in 1..5 :
                          problems1[key][FieldNames[g]] # problems2[key][FieldNames[g]])
            /\ \A n \in 1..Len(differences) :
                  differences[n].type = "content_mismatch" => differences[n].details # <<>>

====
